---- MODULE Spec2Model ----
(***************************************************************************)
(* Model of the stock market data pipeline:                                *)
(*   scripts/stock_data_fetcher.py  (fetch, demo data, upsert writer,      *)
(*                                   database validation)                  *)
(*   dags/stock_pipeline.py         (environment guard, static task graph) *)
(*                                                                         *)
(* Four specifications share the definitions below:                        *)
(*   SpecFetch  calls of fetch_stock_data under a moving wall clock        *)
(*   SpecStore  repeated calls of process_and_store_data for one symbol    *)
(*   SpecConc   process_and_store_data of two symbols, interleaved         *)
(*   SpecDag    one run of the task graph under the orchestrator           *)
(***************************************************************************)
EXTENDS Integers, Sequences, FiniteSets, TLC

VARIABLES
    apiKey,     \* os.getenv('ALPHA_VANTAGE_API_KEY'): "unset", "empty", "placeholder", "valid"
    now,        \* wall clock, in ticks
    fres,       \* value returned by the last fetch_stock_data call
    fcalled     \* symbol of the last fetch_stock_data call, "" before any

fetchVars == <<apiKey, now, fres, fcalled>>

VARIABLES
    db,         \* committed rows of stock_prices
    ppc,        \* per symbol: "idle", "loop", "returned", "raised"
    raw,        \* per symbol: raw_data
    idx,        \* per symbol: position of the for loop in time_series.items()
    conn,       \* per symbol: "none", "open", "closed", "lost"
    pending,    \* per symbol: rows written by the open transaction
    ins,        \* per symbol: records_inserted
    upd,        \* per symbol: records_updated
    exc,        \* per symbol: the exception the call raised, and where
    db0,        \* per symbol: the symbol's committed rows when the call began
    seqdb       \* the store had every committed call run alone, in commit order

storeVars == <<db, ppc, raw, idx, conn, pending, ins, upd, exc, db0, seqdb>>

VARIABLES
    ti,         \* per task: state of its task instance in the run
    tries,      \* per task: attempts started
    vconn,      \* connection of validate_database_connection: "none", "open", "closed"
    netCalled,  \* requests.get was called in the run
    dbCalled    \* psycopg2.connect was called in the run

dagVars == <<ti, tries, vconn, netCalled, dbCalled>>

(***************************************************************************)
(* Bounds of the model.                                                    *)
(***************************************************************************)
\* ticks of the wall clock per hour
TicksPerHour == 2
\* last tick of the wall clock
MaxClock == 5
\* most ticks the clock advances between two reads inside one call
MaxDrift == 1
\* most entries of a provider time series
MaxEntries == 2
\* symbols of STOCK_SYMBOLS the task graph is built for
NumSymbols == 2

(***************************************************************************)
(* Environment.                                                            *)
(***************************************************************************)
ApiKeys == {"unset", "empty", "placeholder", "valid"}

\* `not api_key`: None and '' are falsy
IsFalsy(k) == k \in {"unset", "empty"}

STOCK_SYMBOLS == <<"AAPL", "GOOGL", "MSFT", "AMZN", "TSLA">>

\* arguments of fetch_stock_data: a symbol of base_prices and one outside it
FetchSymbols == {"AAPL", "ZZZ"}

(***************************************************************************)
(* Timestamp strings.  A string is modelled by its format and the hour it  *)
(* denotes; the hour is an integer count of hours.                         *)
(*   padded    "2024-01-01 09:00:00"                                       *)
(*   unpadded  "2024-1-1 9:00:00"   (strptime accepts it)                  *)
(*   garbage   anything strptime rejects                                   *)
(***************************************************************************)
TsString(f, h) == [fmt |-> f, hour |-> h]

\* datetime truncated by strftime('%Y-%m-%d %H:00:00'): minutes and seconds dropped
strftime_hour(t) == TsString("padded", t \div TicksPerHour)

\* datetime.now() - timedelta(hours=i)
minus_hours(t, i) == t - i * TicksPerHour

\* datetime.strptime(timestamp, '%Y-%m-%d %H:%M:%S')
strptime(s) ==
    IF s.fmt = "garbage" THEN [exc |-> "ValueError", val |-> 0]
    ELSE [exc |-> "none", val |-> s.hour]

(***************************************************************************)
(* Field values of one entry, as they arrive in the JSON body.             *)
(*   "150.25" "151.00"  decimal strings     "1000"  integer string         *)
(*   "abc"     a non-numeric string                                        *)
(*   "null"    JSON null (None)                                            *)
(*   "missing" the label is not in the mapping                             *)
(***************************************************************************)
DecStrings == {"150.25", "151.00"}
IntStrings == {"1000"}

\* values[label]
lookup(x) ==
    IF x = "missing" THEN [exc |-> "KeyError", val |-> x]
    ELSE [exc |-> "none", val |-> x]

\* float(x), in hundredths
float(x) ==
    CASE x = "null" -> [exc |-> "TypeError", val |-> 0]
      [] x = "150.25" -> [exc |-> "none", val |-> 15025]
      [] x = "151.00" -> [exc |-> "none", val |-> 15100]
      [] x = "1000" -> [exc |-> "none", val |-> 100000]
      [] OTHER -> [exc |-> "ValueError", val |-> 0]

\* int(x)
int(x) ==
    CASE x = "null" -> [exc |-> "TypeError", val |-> 0]
      [] x = "1000" -> [exc |-> "none", val |-> 1000]
      [] OTHER -> [exc |-> "ValueError", val |-> 0]

(***************************************************************************)
(* A time series is a dict: a sequence of <<key, values>> pairs in         *)
(* insertion order with pairwise distinct keys.                            *)
(***************************************************************************)
Keys(d) == {d[i][1] : i \in 1..Len(d)}

\* d[k] = v : overwrite in place when k is present, append otherwise
DictSet(d, k, v) ==
    IF k \in Keys(d)
    THEN [i \in 1..Len(d) |-> IF d[i][1] = k THEN <<k, v>> ELSE d[i]]
    ELSE Append(d, <<k, v>>)

(***************************************************************************)
(* _get_demo_data(symbol).  reads[i+1] is the value of datetime.now() in   *)
(* iteration i of the loop, draws[i+1] the random prices of iteration i.   *)
(***************************************************************************)
\* range(5)
DemoPoints == 5

base_prices == [s \in {"AAPL", "GOOGL", "MSFT", "AMZN", "TSLA"} |->
    CASE s = "AAPL" -> 150 [] s = "GOOGL" -> 2800 [] s = "MSFT" -> 300
      [] s = "AMZN" -> 3000 [] OTHER -> 200]

\* base_prices.get(symbol, 100.0)
base_price(symbol) ==
    IF symbol \in DOMAIN base_prices THEN base_prices[symbol] ELSE 100

RECURSIVE demo_series(_, _, _)
demo_series(reads, draws, n) ==
    IF n = 0 THEN <<>>
    ELSE DictSet(demo_series(reads, draws, n - 1),
                 strftime_hour(minus_hours(reads[n], n - 1)),
                 [open |-> draws[n], volume |-> "1000"])

get_demo_data(symbol, reads, draws) ==
    [src |-> "demo", kind |-> "object", symbol |-> symbol,
     base |-> base_price(symbol), hasKey |-> TRUE,
     series |-> demo_series(reads, draws, DemoPoints)]

\* the clock readings one call can see: non-decreasing, from the current tick on
ClockReads(t) ==
    {r \in [1..DemoPoints -> t..(IF t + MaxDrift > MaxClock THEN MaxClock ELSE t + MaxDrift)] :
        /\ r[1] = t
        /\ \A i \in 1..(DemoPoints - 1) : r[i] <= r[i + 1]}

\* the random prices one call can draw, formatted with f'{x:.2f}': any price in
\* the first two iterations, the second one again in the later ones
Draws ==
    {d \in [1..DemoPoints -> DecStrings] : \A i \in 3..DemoPoints : d[i] = d[2]}

(***************************************************************************)
(* Outcomes of requests.get(...) and response.json().                      *)
(*   transport   RequestException from requests.get (timeout, DNS, ...)    *)
(*   http        raise_for_status() raises HTTPError                       *)
(*   unparsable  response.json() raises ValueError                         *)
(*   scalar      body is null / a number / a boolean: `in` raises TypeError*)
(*   sequence    body is a JSON string or array: `in` tests substring or   *)
(*               element; the three flags give the results of the tests    *)
(*   object      body is a JSON object; the flags say which keys it has    *)
(***************************************************************************)
NoSeries == <<>>

Body(kind, err, note, ts, series) ==
    [kind |-> kind, hasError |-> err, hasNote |-> note, hasKey |-> ts, series |-> series]

Failures == {Body(k, FALSE, FALSE, FALSE, NoSeries) : k \in {"transport", "http", "unparsable", "scalar"}}

\* only an object holding the key carries a time series
Containers(SeriesSet) ==
    {b \in {Body(k, e, n, t, s) : k \in {"object", "sequence"}, e \in BOOLEAN, n \in BOOLEAN,
                                  t \in BOOLEAN, s \in SeriesSet \cup {NoSeries}} :
        (b.series = NoSeries) <=> ~(b.kind = "object" /\ b.hasKey)}

\* the value fetch_stock_data returns when it returns `data`
api_payload(symbol, body) ==
    [src |-> "api", kind |-> body.kind, symbol |-> symbol, base |-> 0,
     hasKey |-> body.hasKey,
     series |-> IF body.kind = "object" /\ body.hasKey THEN body.series ELSE NoSeries]

(***************************************************************************)
(* fetch_stock_data(symbol): the value returned, given the credential, the *)
(* outcome of the request and the demo data a fallback would generate.     *)
(* networkCall tells whether requests.get was called.                      *)
(***************************************************************************)
networkCall(api_key) == ~(IsFalsy(api_key) \/ api_key = "placeholder")

\* fetch_stock_data without the check of the time-series key (lines 146-149)
fetch_without_key_check(symbol, api_key, body, demo) ==
    IF IsFalsy(api_key) \/ api_key = "placeholder" THEN demo
    ELSE CASE body.kind \in {"transport", "http"} -> demo
           [] body.kind \in {"unparsable", "scalar"} -> demo
           [] body.hasError -> demo
           [] body.hasNote -> demo
           [] OTHER -> api_payload(symbol, body)

fetch_stock_data(symbol, api_key, body, demo) ==
    IF IsFalsy(api_key) \/ api_key = "placeholder" THEN demo
    ELSE CASE body.kind \in {"transport", "http"} -> demo      \* except RequestException
           [] body.kind \in {"unparsable", "scalar"} -> demo   \* except Exception
           [] body.hasError -> demo                            \* raise Exception -> except Exception
           [] body.hasNote -> demo
           [] ~body.hasKey -> demo
           [] OTHER -> api_payload(symbol, body)

(***************************************************************************)
(* SpecFetch                                                               *)
(***************************************************************************)
NoPayload == [src |-> "none", kind |-> "none", symbol |-> "", base |-> 0,
              hasKey |-> FALSE, series |-> NoSeries]

\* one well-formed series the provider may send
GoodSeries == {<< <<TsString("padded", 0), [open |-> "150.25", volume |-> "1000"]>> >>}

FetchResponses == Failures \cup Containers(GoodSeries)

(***************************************************************************)
(* The task graph of dags/stock_pipeline.py.                               *)
(***************************************************************************)
DagSymbols == {STOCK_SYMBOLS[i] : i \in 1..NumSymbols}

check_env_task == <<"check_environment_variables", "">>
log_start_task == <<"log_pipeline_start", "">>
validate_db_task == <<"validate_database_connection", "">>
fetch_task(symbol) == <<"fetch_data", symbol>>
process_task(symbol) == <<"process_and_store", symbol>>
log_end_task == <<"log_pipeline_end", "">>

fetch_tasks == {fetch_task(s) : s \in DagSymbols}
process_tasks == {process_task(s) : s \in DagSymbols}

Tasks ==
    {check_env_task, log_start_task, validate_db_task, log_end_task}
    \cup fetch_tasks \cup process_tasks

\* the graph with `process_task >> log_end_task` applied to the last symbol only
upstream_last_process_only(t) ==
    CASE t = check_env_task -> {}
      [] t = log_start_task -> {check_env_task}
      [] t = validate_db_task -> {log_start_task}
      [] t \in fetch_tasks -> {validate_db_task}
      [] t \in process_tasks -> {fetch_task(t[2])}
      [] OTHER -> {process_task(STOCK_SYMBOLS[NumSymbols])}

\* the graph with every chain but the first hung behind the first chain
upstream_chained(t) ==
    CASE t = check_env_task -> {}
      [] t = log_start_task -> {check_env_task}
      [] t = validate_db_task -> {log_start_task}
      [] t = fetch_task(STOCK_SYMBOLS[1]) -> {validate_db_task}
      [] t \in fetch_tasks -> {process_task(STOCK_SYMBOLS[1])}
      [] t \in process_tasks -> {fetch_task(t[2])}
      [] OTHER -> process_tasks

\* the edges set with >> : the tasks directly upstream of t
upstream(t) ==
    CASE t = check_env_task -> {}
      [] t = log_start_task -> {check_env_task}
      [] t = validate_db_task -> {log_start_task}
      [] t \in fetch_tasks -> {validate_db_task}
      [] t \in process_tasks -> {fetch_task(t[2])}
      [] OTHER -> process_tasks

\* default_args['retries']
retries == 2

\* the guard written `if os.getenv(var) is None`
check_raises_unset_only(api_key) == api_key = "unset"

\* check_environment_variables raises ValueError: `if not os.getenv(var)`
check_raises(api_key) == IsFalsy(api_key)

DagIdle ==
    /\ ti = [t \in Tasks |-> "none"]
    /\ tries = [t \in Tasks |-> 0]
    /\ vconn = "none"
    /\ netCalled = FALSE
    /\ dbCalled = FALSE

StoreSymbols == {"AAPL", "GOOGL"}

NoExc == [cls |-> "none", at |-> "none"]

\* no call of process_and_store_data has begun and the table is empty
StoreIdle ==
    /\ db = {}
    /\ seqdb = {}
    /\ ppc = [s \in StoreSymbols |-> "idle"]
    /\ raw = [s \in StoreSymbols |-> NoPayload]
    /\ idx = [s \in StoreSymbols |-> 0]
    /\ conn = [s \in StoreSymbols |-> "none"]
    /\ pending = [s \in StoreSymbols |-> {}]
    /\ ins = [s \in StoreSymbols |-> 0]
    /\ upd = [s \in StoreSymbols |-> 0]
    /\ exc = [s \in StoreSymbols |-> NoExc]
    /\ db0 = [s \in StoreSymbols |-> {}]

InitFetch ==
    /\ apiKey \in ApiKeys
    /\ now \in 0..1
    /\ fres = NoPayload
    /\ fcalled = ""
    /\ StoreIdle
    /\ DagIdle

Tick ==
    /\ now < MaxClock
    /\ now' = now + 1
    /\ UNCHANGED <<apiKey, fres, fcalled, storeVars, dagVars>>

FetchCall ==
    \E symbol \in FetchSymbols, body \in FetchResponses :
    \E reads \in ClockReads(now), draws \in Draws :
        /\ fres' = fetch_stock_data(symbol, apiKey, body, get_demo_data(symbol, reads, draws))
        /\ fcalled' = symbol
        /\ now' = reads[DemoPoints]
        /\ UNCHANGED <<apiKey, storeVars, dagVars>>

NextFetch == Tick \/ FetchCall

(***************************************************************************)
(* The store: table stock_prices, a set of rows, and the sessions of the   *)
(* process_and_store_data calls writing to it.                             *)
(***************************************************************************)
Row(symbol, ts, open, volume) ==
    [symbol |-> symbol, timestamp |-> ts, open_price |-> open, volume |-> volume]

SameKey(r, q) == r.symbol = q.symbol /\ r.timestamp = q.timestamp

RowsOf(rows, symbol) == {r \in rows : r.symbol = symbol}

\* the rows a session sees: the committed rows, overlaid with its own writes
View(committed, pend) ==
    {r \in committed : \A q \in pend : ~SameKey(r, q)} \cup pend

\* INSERT ... ON CONFLICT (symbol, timestamp) DO UPDATE SET ... RETURNING (xmax = 0)
\* executed in a session that sees `seen` and has written `pend`
upsert(seen, pend, row) ==
    [pend |-> {q \in pend : ~SameKey(q, row)} \cup {row},
     inserted |-> \A r \in seen : ~SameKey(r, row)]

\* a commit of plain INSERTs, without ON CONFLICT
commit_without_conflict(committed, pend) == committed \cup pend

\* a commit that reloads the table from the session's batch
commit_reload(committed, pend) == pend

\* conn.commit(): the session's writes replace the rows they conflict with
commit(committed, pend) ==
    {r \in committed : \A q \in pend : ~SameKey(r, q)} \cup pend

\* the dict parsed_data = {...}: the first exception in evaluation order wins
parse_entry(symbol, entry) ==
    LET ts == strptime(entry[1])
        o1 == lookup(entry[2].open)
        o2 == float(entry[2].open)
        v1 == lookup(entry[2].volume)
        v2 == int(entry[2].volume)
    IN  CASE ts.exc # "none" -> [exc |-> ts.exc, row |-> Row(symbol, 0, 0, 0)]
          [] o1.exc # "none" -> [exc |-> o1.exc, row |-> Row(symbol, 0, 0, 0)]
          [] o2.exc # "none" -> [exc |-> o2.exc, row |-> Row(symbol, 0, 0, 0)]
          [] v1.exc # "none" -> [exc |-> v1.exc, row |-> Row(symbol, 0, 0, 0)]
          [] v2.exc # "none" -> [exc |-> v2.exc, row |-> Row(symbol, 0, 0, 0)]
          [] OTHER -> [exc |-> "none", row |-> Row(symbol, ts.val, o2.val, v2.val)]

\* except (ValueError, KeyError): continue
skipped(e) == e \in {"ValueError", "KeyError"}

\* the outer handler: if 'conn' in locals(): conn.rollback(); conn.close()
\* rollback() raises on a lost connection, the bare except swallows it and
\* close() is not reached
on_error_without_close(c) == c

on_error(c) ==
    CASE c = "open" -> "closed"
      [] OTHER -> c


Raised(cls, at) == [cls |-> cls, at |-> at]

P9 == TsString("padded", 9)
P10 == TsString("padded", 10)
U9 == TsString("unpadded", 9)
G0 == TsString("garbage", 0)

Entry(k, o, v) == <<k, [open |-> o, volume |-> v]>>

\* entries a provider body may hold: well formed ...
GoodEntries ==
    {Entry(P9, "150.25", "1000"), Entry(P9, "151.00", "1000"),
     Entry(P10, "150.25", "1000"), Entry(U9, "151.00", "1000")}

\* ... and with one defect: a timestamp strptime rejects, a non-numeric price,
\* a volume that is absent, or null
BadEntries ==
    {Entry(G0, "150.25", "1000"), Entry(P9, "abc", "1000"),
     Entry(P10, "150.25", "missing"), Entry(P10, "150.25", "null")}

\* the dicts of at most MaxEntries entries over E
SeriesOver(E) ==
    UNION {{d \in [1..n -> E] : \A i, j \in 1..n : i # j => d[i][1] # d[j][1]} : n \in 0..MaxEntries}

OkBodies(SeriesSet) ==
    {Body("object", FALSE, FALSE, TRUE, s) : s \in SeriesSet \ {NoSeries}}
    \cup {Body("sequence", FALSE, FALSE, TRUE, NoSeries)}

StoreBodies == OkBodies(SeriesOver(GoodEntries \cup BadEntries))

ConcBodies ==
    OkBodies(SeriesOver({Entry(P9, "150.25", "1000"), Entry(P9, "151.00", "1000"),
                         Entry(P10, "150.25", "1000"), Entry(P10, "150.25", "null")}))

FixedReads == [i \in 1..DemoPoints |-> now]
FixedDraws == [i \in 1..DemoPoints |-> "150.25"]

InitStore ==
    /\ apiKey = "valid"
    /\ now = 0
    /\ fres = NoPayload
    /\ fcalled = ""
    /\ StoreIdle
    /\ DagIdle

\* the call ends in the outer handler with exception e
Fail(s, e) ==
    /\ ppc' = [ppc EXCEPT ![s] = "raised"]
    /\ exc' = [exc EXCEPT ![s] = e]
    /\ pending' = [pending EXCEPT ![s] = {}]

\* lines 234-253: fetch, key check, connect, cursor, counters
PS_Begin(s, Bodies, From) ==
    /\ ppc[s] \in From
    /\ \E body \in Bodies, connected \in BOOLEAN :
        LET data == fetch_stock_data(s, apiKey, body, get_demo_data(s, FixedReads, FixedDraws))
        IN  /\ raw' = [raw EXCEPT ![s] = data]
            /\ db0' = [db0 EXCEPT ![s] = RowsOf(db, s)]
            /\ idx' = [idx EXCEPT ![s] = 1]
            /\ ins' = [ins EXCEPT ![s] = 0]
            /\ upd' = [upd EXCEPT ![s] = 0]
            /\ CASE ~data.hasKey ->
                      /\ Fail(s, Raised("Exception", "shape"))
                      /\ conn' = [conn EXCEPT ![s] = "none"]
                 [] data.kind # "object" ->          \* raw_data[time_series_key]
                      /\ Fail(s, Raised("TypeError", "shape"))
                      /\ conn' = [conn EXCEPT ![s] = "none"]
                 [] ~connected ->                    \* get_database_connection raises
                      /\ Fail(s, Raised("OperationalError", "connect"))
                      /\ conn' = [conn EXCEPT ![s] = "none"]
                 [] OTHER ->
                      /\ ppc' = [ppc EXCEPT ![s] = "loop"]
                      /\ exc' = [exc EXCEPT ![s] = NoExc]
                      /\ conn' = [conn EXCEPT ![s] = "open"]
                      /\ pending' = [pending EXCEPT ![s] = {}]
    /\ UNCHANGED <<db, seqdb, fetchVars, dagVars>>

\* lines 255-295: one iteration of the for loop
PS_Entry(s) ==
    /\ ppc[s] = "loop"
    /\ idx[s] <= Len(raw[s].series)
    /\ LET p == parse_entry(s, raw[s].series[idx[s]])
           u == upsert(View(db, pending[s]), pending[s], p.row)
       IN  \/ /\ skipped(p.exc)
              /\ idx' = [idx EXCEPT ![s] = idx[s] + 1]
              /\ UNCHANGED <<ppc, exc, pending, conn, ins, upd>>
           \/ /\ p.exc # "none" /\ ~skipped(p.exc)
              /\ Fail(s, Raised(p.exc, "parse"))
              /\ conn' = [conn EXCEPT ![s] = on_error(conn[s])]
              /\ UNCHANGED <<idx, ins, upd>>
           \/ /\ p.exc = "none"
              /\ pending' = [pending EXCEPT ![s] = u.pend]
              /\ ins' = [ins EXCEPT ![s] = IF u.inserted THEN ins[s] + 1 ELSE ins[s]]
              /\ upd' = [upd EXCEPT ![s] = IF u.inserted THEN upd[s] ELSE upd[s] + 1]
              /\ idx' = [idx EXCEPT ![s] = idx[s] + 1]
              /\ UNCHANGED <<ppc, exc, conn>>
           \/ /\ p.exc = "none"                      \* cursor.execute raises
              /\ \E c \in {"open", "lost"} :
                    conn' = [conn EXCEPT ![s] = on_error(c)]
              /\ Fail(s, Raised("DatabaseError", "execute"))
              /\ UNCHANGED <<idx, ins, upd>>
    /\ UNCHANGED <<db, seqdb, raw, db0, fetchVars, dagVars>>

\* the store after a call that writes `series` for `symbol` runs alone on `rows`
RECURSIVE alone(_, _, _, _)
alone(rows, symbol, series, n) ==
    IF n = 0 THEN rows
    ELSE LET before == alone(rows, symbol, series, n - 1)
             p == parse_entry(symbol, series[n])
         IN  IF p.exc = "none"
             THEN {r \in before : ~SameKey(r, p.row)} \cup {p.row}
             ELSE before

\* lines 297-309: commit, close, return
PS_Commit(s) ==
    /\ ppc[s] = "loop"
    /\ idx[s] > Len(raw[s].series)
    /\ \/ /\ db' = commit(db, pending[s])
          /\ seqdb' = alone(seqdb, s, raw[s].series, Len(raw[s].series))
          /\ pending' = [pending EXCEPT ![s] = {}]
          /\ conn' = [conn EXCEPT ![s] = "closed"]
          /\ ppc' = [ppc EXCEPT ![s] = "returned"]
          /\ UNCHANGED exc
       \/ /\ \E c \in {"open", "lost"} :                      \* conn.commit raises
                conn' = [conn EXCEPT ![s] = on_error(c)]
          /\ Fail(s, Raised("OperationalError", "commit"))
          /\ UNCHANGED <<db, seqdb>>
    /\ UNCHANGED <<raw, idx, ins, upd, db0, fetchVars, dagVars>>

\* any sequence of calls for one symbol, over the runs of the graph
NextStore ==
    \E s \in {"AAPL"} :
        PS_Begin(s, StoreBodies, {"idle", "returned", "raised"}) \/ PS_Entry(s) \/ PS_Commit(s)

\* one run of the graph: the chains of all symbols side by side, a chain called
\* again only as the retry of a call that raised
NextConc ==
    \E s \in StoreSymbols :
        PS_Begin(s, ConcBodies, {"idle", "raised"}) \/ PS_Entry(s) \/ PS_Commit(s)

\* what earlier runs may have left in the table
PriorStores ==
    {{}, {Row(s, 9, 15100, 1000) : s \in StoreSymbols}, {Row("GOOGL", 10, 15025, 1000)}}

InitConc ==
    /\ apiKey = "valid"
    /\ now = 0
    /\ fres = NoPayload
    /\ fcalled = ""
    /\ db \in PriorStores
    /\ seqdb = db
    /\ ppc = [s \in StoreSymbols |-> "idle"]
    /\ raw = [s \in StoreSymbols |-> NoPayload]
    /\ idx = [s \in StoreSymbols |-> 0]
    /\ conn = [s \in StoreSymbols |-> "none"]
    /\ pending = [s \in StoreSymbols |-> {}]
    /\ ins = [s \in StoreSymbols |-> 0]
    /\ upd = [s \in StoreSymbols |-> 0]
    /\ exc = [s \in StoreSymbols |-> NoExc]
    /\ db0 = [s \in StoreSymbols |-> {}]
    /\ DagIdle

(***************************************************************************)
(* One run of the graph under the orchestrator: trigger rule all_success,  *)
(* a task that raises is retried until `retries` retries are used up.      *)
(***************************************************************************)
InitDag ==
    /\ apiKey \in ApiKeys
    /\ now = 0
    /\ fres = NoPayload
    /\ fcalled = ""
    /\ StoreIdle
    /\ DagIdle

\* every upstream task succeeded
ready(t) == \A u \in upstream(t) : ti[u] = "success"

\* the attempt of t that is running ends
succeed(t) == ti' = [ti EXCEPT ![t] = "success"]

raise(t) ==
    ti' = [ti EXCEPT ![t] = IF tries[t] <= retries THEN "up_for_retry" ELSE "failed"]

Launch ==
    \E t \in Tasks :
        /\ ti[t] \in {"none", "up_for_retry"}
        /\ ready(t)
        /\ ti' = [ti EXCEPT ![t] = "running"]
        /\ tries' = [tries EXCEPT ![t] = tries[t] + 1]
        /\ UNCHANGED <<vconn, netCalled, dbCalled, fetchVars, storeVars>>

\* a task none of whose attempts will run: an upstream task failed or was skipped so
MarkUpstreamFailed ==
    \E t \in Tasks :
        /\ ti[t] = "none"
        /\ \E u \in upstream(t) : ti[u] \in {"failed", "upstream_failed"}
        /\ ti' = [ti EXCEPT ![t] = "upstream_failed"]
        /\ UNCHANGED <<tries, vconn, netCalled, dbCalled, fetchVars, storeVars>>

RunCheckEnv ==
    /\ ti[check_env_task] = "running"
    /\ IF check_raises(apiKey) THEN raise(check_env_task) ELSE succeed(check_env_task)
    /\ UNCHANGED <<tries, vconn, netCalled, dbCalled, fetchVars, storeVars>>

RunLog ==
    \E t \in {log_start_task, log_end_task} :
        /\ ti[t] = "running"
        /\ succeed(t)
        /\ UNCHANGED <<tries, vconn, netCalled, dbCalled, fetchVars, storeVars>>

\* validate_database_connection, line 63: get_database_connection()
ValidateConnect ==
    /\ ti[validate_db_task] = "running"
    /\ vconn # "open"
    /\ dbCalled' = TRUE
    /\ \/ /\ vconn' = "open"
          /\ UNCHANGED ti
       \/ /\ vconn' = "none"                       \* psycopg2.connect raises
          /\ raise(validate_db_task)
    /\ UNCHANGED <<tries, netCalled, fetchVars, storeVars>>

\* the connection after the query, by its outcome: lines 81-82 close it on the
\* path where the table exists, the other paths go to `except: ... raise`
after_query(outcome) == IF outcome = "exists" THEN "closed" ELSE "open"

\* validate_database_connection, lines 64-89
ValidateQuery ==
    /\ ti[validate_db_task] = "running"
    /\ vconn = "open"
    /\ \E outcome \in {"exists", "absent", "error"} :
          /\ vconn' = after_query(outcome)
          /\ IF outcome = "exists" THEN succeed(validate_db_task) ELSE raise(validate_db_task)
    /\ UNCHANGED <<tries, netCalled, dbCalled, fetchVars, storeVars>>

\* python_callable=fetch_stock_data: returns whatever the request does
RunFetch ==
    \E t \in fetch_tasks :
        /\ ti[t] = "running"
        /\ netCalled' = (netCalled \/ networkCall(apiKey))
        /\ succeed(t)
        /\ UNCHANGED <<tries, vconn, dbCalled, fetchVars, storeVars>>

\* python_callable=process_and_store_data: returns (line 304) or raises (line 322)
RunProcess ==
    \E t \in process_tasks :
        /\ ti[t] = "running"
        /\ netCalled' = (netCalled \/ networkCall(apiKey))
        /\ dbCalled' = TRUE
        /\ succeed(t) \/ raise(t)
        /\ UNCHANGED <<tries, vconn, fetchVars, storeVars>>

NextDag ==
    \/ Launch
    \/ MarkUpstreamFailed
    \/ RunCheckEnv
    \/ RunLog
    \/ ValidateConnect
    \/ ValidateQuery
    \/ RunFetch
    \/ RunProcess

vars == <<fetchVars, storeVars, dagVars>>

SpecFetch == InitFetch /\ [][NextFetch]_vars

SpecStore == InitStore /\ [][NextStore]_vars

SpecConc == InitConc /\ [][NextConc]_vars

SpecDag == InitDag /\ [][NextDag]_vars

(***************************************************************************)
(* Properties of process_and_store_data.                                   *)
(***************************************************************************)
Series(s) == raw[s].series

\* positions of the entries of the call's batch that parse
Parsed(s) == {i \in 1..Len(Series(s)) : parse_entry(s, Series(s)[i]).exc = "none"}

ParsedRow(s, i) == parse_entry(s, Series(s)[i]).row

Timestamps(rows) == {r.timestamp : r \in rows}

\* the entries whose key neither the table nor an earlier entry of the batch held
FirstWrites(s) ==
    {i \in Parsed(s) :
        /\ ParsedRow(s, i).timestamp \notin Timestamps(db0[s])
        /\ \A j \in Parsed(s) : j < i => ParsedRow(s, j).timestamp # ParsedRow(s, i).timestamp}

\* the last entry of the batch written to each key
LastWrites(s) ==
    {i \in Parsed(s) :
        \A j \in Parsed(s) : j > i => ParsedRow(s, j).timestamp # ParsedRow(s, i).timestamp}

Unique(rows) == \A r, q \in rows : SameKey(r, q) => r = q

\* C2: a call of process_and_store_data commits nothing before every entry of its
\* batch has been attempted, and a call that raises has released its connection,
\* holds no uncommitted write and leaves the symbol's rows as they were when it
\* began; a call that returns has attempted every entry and closed the connection.
C2_SingleTransaction ==
    \A s \in StoreSymbols :
        /\ ppc[s] = "loop" => RowsOf(db, s) = db0[s]
        /\ ppc[s] = "raised" =>
              /\ exc[s] # NoExc
              /\ conn[s] # "open"
              /\ pending[s] = {}
              /\ RowsOf(db, s) = db0[s]
        /\ ppc[s] = "returned" =>
              /\ idx[s] > Len(Series(s))
              /\ conn[s] = "closed"
              /\ pending[s] = {}

\* a call raised in the middle of its batch, after a write
C2_Witness ==
    \E s \in StoreSymbols :
        /\ ppc[s] = "raised"
        /\ exc[s].at \in {"execute", "commit"}
        /\ ins[s] + upd[s] >= 1
        /\ db0[s] # {}

\* C5: the table holds at most one row per (symbol, timestamp); when a call
\* returns, records_inserted counts the writes to keys that were absent,
\* records_updated the writes to keys that were present, every written key holds
\* the values last written to it and every other row is as it was.
C5_UpsertCounts ==
    /\ Unique(db)
    /\ \A s \in StoreSymbols :
          ppc[s] = "returned" =>
              /\ ins[s] = Cardinality(FirstWrites(s))
              /\ upd[s] = Cardinality(Parsed(s)) - Cardinality(FirstWrites(s))
              /\ \A i \in LastWrites(s) : ParsedRow(s, i) \in db
              /\ \A r \in db0[s] :
                    r \in db \/ \E i \in Parsed(s) : SameKey(ParsedRow(s, i), r)
              /\ Timestamps(RowsOf(db, s)) =
                    Timestamps(db0[s]) \cup {ParsedRow(s, i).timestamp : i \in Parsed(s)}

\* the same (symbol, timestamp, values) written a second time: one row, an update
C5_Witness ==
    \E s \in StoreSymbols :
        /\ ppc[s] = "returned"
        /\ Cardinality(Parsed(s)) = 1
        /\ \E i \in Parsed(s) : ParsedRow(s, i) \in db0[s]
        /\ ins[s] = 0
        /\ upd[s] = 1
        /\ RowsOf(db, s) = db0[s]

\* C6: an entry that fails to parse never makes the call raise, and a call that
\* returns has counted exactly the entries that parsed.
C6_ParseFailureSkipped ==
    \A s \in StoreSymbols :
        /\ ~(ppc[s] = "raised" /\ exc[s].at = "parse")
        /\ ppc[s] = "returned" => ins[s] + upd[s] = Cardinality(Parsed(s))

\* C10: chains of distinct symbols do not interfere: a session writes rows of its
\* own symbol only, the rows of a symbol do not change while its call is in its
\* loop, and the table always equals the one obtained by running the committed
\* calls one after the other.
C10_ChainsIndependent ==
    /\ db = seqdb
    /\ \A s \in StoreSymbols :
          /\ \A r \in pending[s] : r.symbol = s
          /\ ppc[s] = "loop" => RowsOf(db, s) = db0[s]

\* the transactions of two chains open at once, each holding uncommitted writes,
\* one of them over a row an earlier run committed
C10_Witness ==
    /\ \A s \in StoreSymbols : ppc[s] = "loop" /\ pending[s] # {}
    /\ \E s \in StoreSymbols : upd[s] >= 1

C4_DemoHasFiveEntries ==
    (fcalled # "" /\ ~networkCall(apiKey)) =>
        /\ fres.src = "demo"
        /\ Len(fres.series) = DemoPoints
        /\ Cardinality(Keys(fres.series)) = DemoPoints

(***************************************************************************)
(* Properties of the task graph and of validate_database_connection.       *)
(***************************************************************************)
launched(t) == tries[t] > 0

\* C1: once validate_database_connection has returned or raised, the connection
\* it opened is closed.
C1_ValidateReleasesConnection ==
    ti[validate_db_task] # "running" => vconn # "open"

\* C7: a task is launched only after each of its upstream tasks has succeeded.
C7_LaunchedAfterUpstream ==
    /\ launched(log_start_task) => ti[check_env_task] = "success"
    /\ launched(validate_db_task) => ti[log_start_task] = "success"
    /\ \A s \in DagSymbols :
          /\ launched(fetch_task(s)) => ti[validate_db_task] = "success"
          /\ launched(process_task(s)) => ti[fetch_task(s)] = "success"
    /\ launched(log_end_task) => \A s \in DagSymbols : ti[process_task(s)] = "success"

\* the run completed, and a task of it was retried on the way
C7_Witness ==
    /\ ti[log_end_task] = "success"
    /\ \E t \in Tasks : tries[t] > 1

\* C8: the permanent failure of a task of one symbol's chain blocks no task of
\* another symbol's chain: the fetch task of symbol t is blocked only by a failure
\* ahead of the fan-out, its process task only by that or by its own fetch task,
\* and neither is left unlaunched when its upstream tasks have succeeded.
C8_ChainsIsolated ==
    \A s \in DagSymbols : \A t \in DagSymbols \ {s} :
        (ti[fetch_task(s)] = "failed" \/ ti[process_task(s)] = "failed") =>
            /\ ti[validate_db_task] = "success"
            /\ ti[fetch_task(t)] \in {"none", "running", "up_for_retry", "success"}
            /\ ti[fetch_task(t)] = "none" => ready(fetch_task(t))
            /\ ti[process_task(t)] = "none" => ti[fetch_task(t)] \notin {"failed", "upstream_failed"}
            /\ ti[process_task(t)] \in {"none", "running", "up_for_retry", "success", "failed"}
            /\ ti[log_end_task] \in {"none", "upstream_failed"}
            /\ ~launched(log_end_task)

\* one chain failed for good and another succeeded in the same run
C8_Witness ==
    \E s \in DagSymbols : \E t \in DagSymbols \ {s} :
        /\ ti[process_task(s)] = "failed"
        /\ ti[fetch_task(t)] = "success"
        /\ ti[process_task(t)] = "success"
        /\ ti[log_end_task] = "upstream_failed"

\* C9: with the API key unset or empty the guard never succeeds, no other task
\* is launched, and the run makes no network call and no database call.
C9_GuardHaltsRun ==
    IsFalsy(apiKey) =>
        /\ ti[check_env_task] # "success"
        /\ \A t \in Tasks \ {check_env_task} : ~launched(t) /\ ti[t] \in {"none", "upstream_failed"}
        /\ ~netCalled
        /\ ~dbCalled
        /\ vconn = "none"

\* the guard failed for good and the whole graph is blocked behind it
C9_Witness ==
    /\ IsFalsy(apiKey)
    /\ ti[check_env_task] = "failed"
    /\ tries[check_env_task] = retries + 1
    /\ \A t \in Tasks \ {check_env_task} : ti[t] = "upstream_failed"
====
